---- MODULE Spec2Model ----
(***************************************************************************)
(* Model of the Pelion webhook Lambda: src/index.js (exports.handler) and  *)
(* src/elasticsearch.js (sendRequest, sendNotifications,                   *)
(* sendRegistrations, sendExpirations).                                    *)
(*                                                                         *)
(* One invocation of the handler is modelled from the event it receives    *)
(* to the moment the Lambda callback is (or is not) called.  The           *)
(* synchronous part of the handler is one action; the HTTP client's        *)
(* callbacks (response, 'data', 'end', error) are the other actions.       *)
(*                                                                         *)
(* Representation of JavaScript values:                                    *)
(*   - an object is a function whose DOMAIN is the set of its own keys, so *)
(*     o.hasOwnProperty(k) is k \in DOMAIN o and reading an absent key     *)
(*     yields Undefined;                                                   *)
(*   - a base64 string is the sequence of its characters' 6-bit values,    *)
(*     with 64 for the padding character '=';                              *)
(*   - a decoded text is the sequence of its character codes;              *)
(*   - a JSON text produced by JSON.stringify(object) is the sequence of   *)
(*     its members (key, value) in insertion order;                        *)
(*   - the bulk string is a sequence of pieces, a piece being a line's     *)
(*     text or the newline character NL.                                   *)
(***************************************************************************)
EXTENDS Integers, Sequences, FiniteSets, TLC

\* Bounds of the model.
MaxItems  == 2      \* items in a callback body, over all its lists
MaxChunks == 2      \* 'data' events of one response

VARIABLES
    event,          \* the Lambda event
    now,            \* what Date.now() returns during the invocation
    pc,             \* where the invocation is
    parsed,         \* number of JSON.parse(event.body) calls
    calls,          \* db functions called by the handler: <<[fn, arg]>>
    built,          \* bulk payloads completed by a builder loop
    requests,       \* requests handed to httpClient.handleRequest
    response,       \* statusCode, statusMessage, headers of the response
    respBody,       \* sendRequest's `body`: the chunks accumulated so far
    promise,        \* the promise returned by sendRequest
    doneCalls,      \* invocations of done(err, res)
    callbackCalls,  \* invocations of the Lambda callback
    thrown          \* exceptions that escaped a handler or event callback

vars == <<event, now, pc, parsed, calls, built, requests, response, respBody,
          promise, doneCalls, callbackCalls, thrown>>

----------------------------------------------------------------------------
\* JavaScript values

Undefined == [t |-> "undefined"]
Null      == [t |-> "null"]
Val(v)    == [t |-> "value", v |-> v]

\* o[k] in JavaScript: the value, or undefined when o has no own key k.
Get(o, k) == IF k \in DOMAIN o THEN Val(o[k]) ELSE Undefined

\* new Error(message)
Error(message) == [t |-> "Error", message |-> message]

\* Truthiness of the values done() receives as err.
Truthy(v) == v.t \notin {"undefined", "null"}

----------------------------------------------------------------------------
\* JSON.stringify

\* JSON.stringify(v) of a plain value: a string holding v's JSON encoding;
\* JSON.stringify(undefined) is undefined.
JSONStringifyValue(v) ==
    IF v.t = "undefined" THEN Undefined ELSE Val([json |-> v.v])

\* JSON.stringify(record) of an object literal, given as the sequence of
\* its <<key, value>> members: members whose value is undefined are left
\* out; the text has no whitespace around it.
JSONStringify(record) ==
    [lead    |-> 0,
     members |-> SelectSeq(record, LAMBDA m : m[2].t # "undefined"),
     trail   |-> 0]

\* String.prototype.trim: leading and trailing whitespace removed.
Trim(text) == [text EXCEPT !.lead = 0, !.trail = 0]

\* The newline character.
NL == [nl |-> TRUE]

\* '{"index":{"_index":"<index>","_type":"_doc"}}'
ActionLine(index) == [action |-> "index", _index |-> index, _type |-> "_doc"]

----------------------------------------------------------------------------
\* Buffer.from(payload, 'base64').toString('ascii')

\* The characters before the first padding character.
RECURSIVE Sextets(_)
Sextets(s) ==
    IF s = <<>> \/ Head(s) = 64 THEN <<>> ELSE <<Head(s)>> \o Sextets(Tail(s))

\* Four 6-bit values make three bytes; a tail of three makes two bytes, a
\* tail of two makes one, a tail of one makes none.
RECURSIVE Base64Bytes(_)
Base64Bytes(q) ==
    LET b1 == q[1] * 4 + (q[2] \div 16)
        b2 == (q[2] % 16) * 16 + (q[3] \div 4)
        b3 == (q[3] % 4) * 64 + q[4]
    IN  IF Len(q) >= 4 THEN <<b1, b2, b3>> \o Base64Bytes(SubSeq(q, 5, Len(q)))
        ELSE IF Len(q) = 3 THEN <<b1, b2>>
        ELSE IF Len(q) = 2 THEN <<b1>>
        ELSE <<>>

\* toString('ascii') keeps the low seven bits of every byte.
ToAscii(bytes) == [i \in 1..Len(bytes) |-> bytes[i] % 128]

\* Buffer.from throws a TypeError when its argument is not a string (here:
\* undefined).
BufferFromBase64ToAscii(payload) ==
    IF payload.t = "undefined"
    THEN [threw |-> TRUE, error |-> Error(<<"TypeError">>)]
    ELSE [threw |-> FALSE, value |-> ToAscii(Base64Bytes(Sextets(payload.v)))]

----------------------------------------------------------------------------
\* src/elasticsearch.js: the bulk payload builders

\* One iteration of sendNotifications' loop: the pieces it adds to bulk,
\* or the exception Buffer.from raises.
notificationPieces(item, t) ==
    LET value == BufferFromBase64ToAscii(Get(item, "payload"))
        record == << <<"time", Val(t)>>,
                     <<"endpoint", Get(item, "ep")>>,
                     <<"path", Get(item, "path")>>,
                     <<"value", IF value.threw THEN Undefined
                                ELSE Val(value.value)>> >>
    IN  IF value.threw
        THEN [threw |-> TRUE, error |-> value.error]
        ELSE [threw |-> FALSE,
              pieces |-> << ActionLine("notifications"), NL,
                            Trim(JSONStringify(record)), NL >>]

\* registrationPieces with the two records of an item in the other order.
registrationPiecesSwapped(item, t) ==
    [threw |-> FALSE,
     pieces |-> << ActionLine("registrations"), NL,
                   Trim(JSONStringify(<< <<"time", Val(t)>>,
                                         <<"endpoint", Get(item, "ep")>>,
                                         <<"value", Val(1)>> >>)), NL,
                   ActionLine("devices"), NL,
                   Trim(JSONStringify(
                       << <<"time", Val(t)>>,
                          <<"endpoint", Get(item, "ep")>>,
                          <<"original-ep", Get(item, "original-ep")>>,
                          <<"ept", Get(item, "ept")>>,
                          <<"resources",
                            JSONStringifyValue(Get(item, "resources"))>> >>)),
                   NL >>]

\* One iteration of sendRegistrations' loop.
registrationPieces(item, t) ==
    LET record_device_info ==
            << <<"time", Val(t)>>,
               <<"endpoint", Get(item, "ep")>>,
               <<"original-ep", Get(item, "original-ep")>>,
               <<"ept", Get(item, "ept")>>,
               <<"resources", JSONStringifyValue(Get(item, "resources"))>> >>
        record_device_registration ==
            << <<"time", Val(t)>>,
               <<"endpoint", Get(item, "ep")>>,
               <<"value", Val(1)>> >>
    IN  [threw |-> FALSE,
         pieces |-> << ActionLine("devices"), NL,
                       Trim(JSONStringify(record_device_info)), NL,
                       ActionLine("registrations"), NL,
                       Trim(JSONStringify(record_device_registration)), NL >>]

\* One iteration of sendExpirations' loop: item is the endpoint name.
expirationPieces(item, t) ==
    LET record_device_deregistration ==
            << <<"time", Val(t)>>,
               <<"endpoint", Val(item)>>,
               <<"value", Val(0)>> >>
    IN  [threw |-> FALSE,
         pieces |-> << ActionLine("registrations"), NL,
                       Trim(JSONStringify(record_device_deregistration)), NL >>]

\* AppendToBulk putting the new pieces in front (bulk = ... + bulk).
PrependToBulk(bulk, pieces) == pieces \o bulk

\* bulk += ... : the pieces of one iteration are appended to bulk.
AppendToBulk(bulk, pieces) == bulk \o pieces

\* The for-of loops: bulk starts as '' and grows item by item, in the
\* list's order; an exception in an iteration ends the loop.
RECURSIVE notificationsLoop(_, _, _)
notificationsLoop(items, t, bulk) ==
    IF items = <<>> THEN [threw |-> FALSE, bulk |-> bulk]
    ELSE LET r == notificationPieces(Head(items), t)
         IN  IF r.threw THEN r
             ELSE notificationsLoop(Tail(items), t, AppendToBulk(bulk, r.pieces))

RECURSIVE registrationsLoop(_, _, _)
registrationsLoop(items, t, bulk) ==
    IF items = <<>> THEN [threw |-> FALSE, bulk |-> bulk]
    ELSE LET r == registrationPieces(Head(items), t)
         IN  IF r.threw THEN r
             ELSE registrationsLoop(Tail(items), t, AppendToBulk(bulk, r.pieces))

RECURSIVE expirationsLoop(_, _, _)
expirationsLoop(items, t, bulk) ==
    IF items = <<>> THEN [threw |-> FALSE, bulk |-> bulk]
    ELSE LET r == expirationPieces(Head(items), t)
         IN  IF r.threw THEN r
             ELSE expirationsLoop(Tail(items), t, AppendToBulk(bulk, r.pieces))

----------------------------------------------------------------------------
\* src/elasticsearch.js: sendRequest, up to httpClient.handleRequest

AWS_REGION == "eu-west-1"
ELASTICSEARCH_DOMAIN == "search-domain.eu-west-1.es.amazonaws.com"

\* A path is its segments; Root is '/', the path of a new AWS.HttpRequest.
Root == <<>>

\* path.join(a, b): the segments of a, then those of b.
PathJoin(a, b) == a \o b

\* The synchronous part of sendRequest: the request is built, then signed.
\* signing is "ok" or "throws": whether the AWS SDK's constructor or signer
\* raises.  An exception raised here is raised before the promise exists,
\* so it leaves sendRequest as an exception, not as a rejection.
sendRequest(params, t, signing) ==
    LET request ==
            [method  |-> params.httpMethod,
             path    |-> PathJoin(Root, params.requestPath),
             body    |-> params.payload,
             headers |-> ("Content-Type" :> "application/json")
                         @@ ("Host" :> ELASTICSEARCH_DOMAIN)]
        signedRequest ==
            [request EXCEPT !.headers =
                @ @@ ("X-Amz-Date" :> t)
                  @@ ("Authorization" :>
                        [service |-> "es", region |-> AWS_REGION])]
    IN  IF signing = "throws"
        THEN [threw |-> TRUE, error |-> Error(<<"signing failed">>)]
        ELSE [threw |-> FALSE, request |-> signedRequest]

\* The tail shared by the three send functions: params is built from the
\* loop's bulk and handed to sendRequest.  What the call leaves behind:
\* the payloads built, the requests handed to the HTTP client, and the
\* exceptions that escaped.
sendBulk(loop, t, signing) ==
    LET params == [httpMethod  |-> "POST",
                   requestPath |-> <<"_bulk">>,
                   payload     |-> loop.bulk]
        r == sendRequest(params, t, signing)
    IN  IF loop.threw
        THEN [built |-> <<>>, requests |-> <<>>, thrown |-> <<loop.error>>]
        ELSE IF r.threw
        THEN [built |-> <<loop.bulk>>, requests |-> <<>>, thrown |-> <<r.error>>]
        ELSE [built |-> <<loop.bulk>>, requests |-> <<r.request>>, thrown |-> <<>>]

sendNotifications(notifications, t, signing) ==
    sendBulk(notificationsLoop(notifications, t, <<>>), t, signing)

sendRegistrations(registrations, t, signing) ==
    sendBulk(registrationsLoop(registrations, t, <<>>), t, signing)

sendExpirations(expirations, t, signing) ==
    sendBulk(expirationsLoop(expirations, t, <<>>), t, signing)

----------------------------------------------------------------------------
\* src/index.js: exports.handler

\* JSON.parse(text).  A text is either the encoding of an object or not
\* JSON at all; parsing the latter throws a SyntaxError.
JSONParse(text) ==
    IF text.kind = "json"
    THEN [threw |-> FALSE, value |-> text.value]
    ELSE [threw |-> TRUE, error |-> Error(<<"SyntaxError">>)]

\* done(err, res): the response the Lambda callback receives.
done(err, res) ==
    [statusCode |-> IF Truthy(err) THEN "400" ELSE "200",
     body       |-> IF Truthy(err) THEN Val(err.message)
                    ELSE JSONStringifyValue(res),
     headers    |-> ("Content-Type" :> "application/json")]

\* MethodIsPut letting POST through as well.
MethodIsPutOrPost(ev) == ev.httpMethod \in {"PUT", "POST"}

\* event.httpMethod === 'PUT'
MethodIsPut(ev) == ev.httpMethod = "PUT"

\* Branch with reg-updates tested before registrations.
BranchRegUpdatesFirst(body) ==
    IF "notifications" \in DOMAIN body THEN "notifications"
    ELSE IF "registrations" \in DOMAIN body \/ "reg-updates" \in DOMAIN body
    THEN IF "reg-updates" \in DOMAIN body THEN "reg-updates"
         ELSE "registrations"
    ELSE IF "registrations-expired" \in DOMAIN body THEN "registrations-expired"
    ELSE "unknown"

\* The if / else-if chain over the decoded body's own keys.
Branch(body) ==
    IF "notifications" \in DOMAIN body THEN "notifications"
    ELSE IF "registrations" \in DOMAIN body \/ "reg-updates" \in DOMAIN body
    THEN IF "registrations" \in DOMAIN body THEN "registrations"
         ELSE "reg-updates"
    ELSE IF "registrations-expired" \in DOMAIN body THEN "registrations-expired"
    ELSE "unknown"

\* What a run of the handler's synchronous part leaves behind.
NoEffect ==
    [parsed |-> 0, calls |-> <<>>, built |-> <<>>, requests |-> <<>>,
     thrown |-> <<>>, done |-> <<>>]

\* The handler called db.<fn>(arg, done), whose effect is sent.
Called(fn, arg, sent) ==
    [parsed |-> 1, calls |-> <<[fn |-> fn, arg |-> arg]>>,
     built |-> sent.built, requests |-> sent.requests,
     thrown |-> sent.thrown, done |-> <<>>]

\* UnknownBody reporting the unknown body as an error.
UnknownBodyRejected ==
    [parsed |-> 1, calls |-> <<>>, built |-> <<>>, requests |-> <<>>,
     thrown |-> <<>>,
     done |-> <<[err |-> Error(<<"unknown type">>), res |-> Undefined]>>]

\* The final else: unknown body, done(null, 'success').
UnknownBody ==
    [NoEffect EXCEPT !.parsed = 1,
                     !.done = <<[err |-> Null, res |-> Val("success")]>>]

\* done(new Error(`Unsupported method "${event.httpMethod}"`))
UnsupportedMethod(ev) ==
    [NoEffect EXCEPT !.done =
        <<[err |-> Error(<<"Unsupported method \"", ev.httpMethod, "\"">>),
           res |-> Undefined]>>]

handler(ev, t, signing) ==
    IF MethodIsPut(ev)
    THEN IF "body" \in DOMAIN ev
         THEN LET p == JSONParse(ev.body)
                  body == p.value
                  branch == Branch(body)
              IN  IF p.threw
                  THEN [NoEffect EXCEPT !.parsed = 1, !.thrown = <<p.error>>]
                  ELSE CASE branch = "notifications" ->
                              Called("sendNotifications", body["notifications"],
                                     sendNotifications(body["notifications"], t, signing))
                         [] branch = "registrations" ->
                              Called("sendRegistrations", body["registrations"],
                                     sendRegistrations(body["registrations"], t, signing))
                         [] branch = "reg-updates" ->
                              Called("sendRegistrations", body["reg-updates"],
                                     sendRegistrations(body["reg-updates"], t, signing))
                         [] branch = "registrations-expired" ->
                              Called("sendExpirations", body["registrations-expired"],
                                     sendExpirations(body["registrations-expired"], t, signing))
                         [] OTHER -> UnknownBody
         ELSE NoEffect
    ELSE UnsupportedMethod(ev)

----------------------------------------------------------------------------
\* Inputs

Methods == {"PUT", "GET", "POST"}
Clocks  == {1000, 2000}

\* "SGVs" (Hel) and "/w==" (the byte 255)
NotifItems ==
    { [ep |-> "node1", path |-> "/3/0/1", payload |-> <<18, 6, 21, 44>>],
      [payload |-> <<63, 48, 64, 64>>],
      [ep |-> "node2", path |-> "/3/0/2"] }

RegItems ==
    { ("ep" :> "node1") @@ ("original-ep" :> "dev1") @@ ("ept" :> "sensor")
        @@ ("resources" :> <<[path |-> "/3/0/1"]>>),
      ("ep" :> "node2") }

ExpItems == {"node1", "node2"}

\* The lists of at most n items of S.
Lists(S, n) == UNION {[1..k -> S] : k \in 0..n}

\* A key of the body: absent (<<>>), or present with a list (<<list>>).
Opt(S, n) == {<<>>} \cup {<<l>> : l \in Lists(S, n)}

Items(o) == IF o = <<>> THEN 0 ELSE Len(o[1])

\* The decoded body with the given keys; "other" is a key the handler does
\* not know.
Body(n, r, u, e, other) ==
    LET keys == {k \in {"notifications", "registrations", "reg-updates",
                        "registrations-expired", "other"} :
                   \/ k = "notifications" /\ n # <<>>
                   \/ k = "registrations" /\ r # <<>>
                   \/ k = "reg-updates" /\ u # <<>>
                   \/ k = "registrations-expired" /\ e # <<>>
                   \/ k = "other" /\ other}
    IN  [k \in keys |->
            CASE k = "notifications" -> n[1]
              [] k = "registrations" -> r[1]
              [] k = "reg-updates" -> u[1]
              [] k = "registrations-expired" -> e[1]
              [] OTHER -> <<>>]

----------------------------------------------------------------------------
\* The invocation

Init ==
    /\ \E m \in Methods :
          \/ event = [httpMethod |-> m]
          \/ event = [httpMethod |-> m, body |-> [kind |-> "garbage"]]
          \/ \E n \in Opt(NotifItems, MaxItems) :
             \E r \in Opt(RegItems, MaxItems - Items(n)) :
             \E u \in Opt(RegItems, MaxItems - Items(n) - Items(r)) :
             \E e \in Opt(ExpItems, MaxItems - Items(n) - Items(r) - Items(u)) :
             \E other \in BOOLEAN :
                event = [httpMethod |-> m,
                         body |-> [kind |-> "json",
                                   value |-> Body(n, r, u, e, other)]]
    /\ now \in Clocks
    /\ pc = "start"
    /\ parsed = 0
    /\ calls = <<>>
    /\ built = <<>>
    /\ requests = <<>>
    /\ response = Undefined
    /\ respBody = <<>>
    /\ promise = [state |-> "none"]
    /\ doneCalls = <<>>
    /\ callbackCalls = <<>>
    /\ thrown = <<>>

\* callback(null, done's response), once per done call.
Callbacks(dones) ==
    [i \in 1..Len(dones) |-> [err |-> Null, res |-> done(dones[i].err, dones[i].res)]]

\* The handler runs to its return (or to the exception that escapes it).
Handler ==
    /\ pc = "start"
    /\ \E signing \in {"ok", "throws"} :
          LET eff == handler(event, now, signing)
          IN  /\ parsed' = eff.parsed
              /\ calls' = eff.calls
              /\ built' = eff.built
              /\ requests' = eff.requests
              /\ thrown' = eff.thrown
              /\ doneCalls' = eff.done
              /\ callbackCalls' = Callbacks(eff.done)
              /\ promise' = IF eff.requests # <<>> THEN [state |-> "pending"]
                            ELSE promise
              /\ pc' = IF eff.thrown # <<>> THEN "threw"
                       ELSE IF eff.requests # <<>> THEN "sent"
                       ELSE IF eff.done # <<>> THEN "completed"
                       ELSE "returned"
    /\ UNCHANGED <<event, now, response, respBody>>

----------------------------------------------------------------------------
\* src/elasticsearch.js: sendRequest's callbacks and the then-handlers

StatusCodes == {200, 503}

StatusMessage(code) == IF code = 200 THEN "OK" ELSE "Service Unavailable"

\* The chunks a response body is made of.  '{"errors":' followed by
\* 'true}' is the one JSON text they can make.
Chunks == {"{\"errors\":", "true}", "<html>"}

TransportErrors == {"ENOTFOUND", "ECONNRESET"}

\* JSON.parse(body) of the accumulated response body.
ResponseJSONParse(text) ==
    IF text = <<"{\"errors\":", "true}">>
    THEN [threw |-> FALSE, value |-> [errors |-> TRUE]]
    ELSE [threw |-> TRUE, error |-> Error(<<"SyntaxError">>)]

\* .then(resolve => done(null, 'success'), ...)
onFulfilled(value) == [err |-> Null, res |-> Val("success")]

\* .then(..., reject => done(reject))
onRejected(reason) == [err |-> reason, res |-> Undefined]

\* The response callback: statusCode, statusMessage and headers are kept,
\* body starts as ''.
Response ==
    /\ pc = "sent"
    /\ \E code \in StatusCodes :
          response' = [statusCode |-> code,
                       statusMessage |-> StatusMessage(code),
                       headers |-> ("content-type" :> "application/json")]
    /\ respBody' = <<>>
    /\ pc' = "receiving"
    /\ UNCHANGED <<event, now, parsed, calls, built, requests, promise,
                   doneCalls, callbackCalls, thrown>>

\* response.on('data'): body += chunk
Data ==
    /\ pc = "receiving"
    /\ Len(respBody) < MaxChunks
    /\ \E chunk \in Chunks : respBody' = Append(respBody, chunk)
    /\ UNCHANGED <<event, now, pc, parsed, calls, built, requests, response,
                   promise, doneCalls, callbackCalls, thrown>>

\* response.on('end'): a non-empty body is parsed; the promise is resolved
\* and its fulfilment handler calls done(null, 'success').  When
\* JSON.parse throws, the exception leaves the event callback and the
\* promise is never settled.
End ==
    /\ pc = "receiving"
    /\ LET p == ResponseJSONParse(respBody)
           data == IF respBody # <<>>
                   THEN response @@ ("body" :> p.value)
                   ELSE response
           d == onFulfilled(data)
       IN  IF respBody # <<>> /\ p.threw
           THEN /\ thrown' = Append(thrown, p.error)
                /\ pc' = "crashed"
                /\ UNCHANGED <<promise, doneCalls, callbackCalls>>
           ELSE /\ promise' = [state |-> "resolved", value |-> data]
                /\ doneCalls' = Append(doneCalls, d)
                /\ callbackCalls' = callbackCalls \o Callbacks(<<d>>)
                /\ pc' = "completed"
                /\ UNCHANGED thrown
    /\ UNCHANGED <<event, now, parsed, calls, built, requests, response, respBody>>

\* The HTTP client's error callback: the promise is rejected and its
\* rejection handler calls done(reject).
TransportError ==
    /\ pc \in {"sent", "receiving"}
    /\ \E code \in TransportErrors :
          LET err == Error(<<code>>)
              d == onRejected(err)
          IN  /\ promise' = [state |-> "rejected", reason |-> err]
              /\ doneCalls' = Append(doneCalls, d)
              /\ callbackCalls' = callbackCalls \o Callbacks(<<d>>)
    /\ pc' = "completed"
    /\ UNCHANGED <<event, now, parsed, calls, built, requests, response,
                   respBody, thrown>>

Next == Handler \/ Response \/ Data \/ End \/ TransportError

Spec == Init /\ [][Next]_vars

----------------------------------------------------------------------------
\* Vocabulary of the properties

Started    == pc # "start"
Terminated == pc \in {"returned", "threw", "crashed", "completed"}

IsPut          == event.httpMethod = "PUT"
HasDecodedBody == "body" \in DOMAIN event /\ event.body.kind = "json"
Keys           == DOMAIN event.body.value
Recognised     == {"notifications", "registrations", "reg-updates",
                   "registrations-expired"}

Success == [err |-> Null, res |-> Val("success")]

SigningFailed == Error(<<"signing failed">>)

\* The bulk string is made of n lines, each followed by a newline.
HasLines(bulk, n) ==
    /\ Len(bulk) = 2 * n
    /\ \A j \in 1..n : bulk[2 * j - 1] # NL /\ bulk[2 * j] = NL

\* The j-th line of a bulk string of newline-terminated lines.
Line(bulk, j) == bulk[2 * j - 1]

\* The value of member k of a document line; undefined when the line has
\* no such member.
Field(line, k) ==
    IF "members" \notin DOMAIN line THEN Undefined
    ELSE LET at == {i \in 1..Len(line.members) : line.members[i][1] = k}
         IN  IF at = {} THEN Undefined
             ELSE line.members[CHOOSE i \in at : TRUE][2]

IndexAction(index) == [action |-> "index", _index |-> index, _type |-> "_doc"]

\* The texts the payloads of NotifItems encode: "Hel", and the byte 255
\* read as ASCII.
Decoded(payload) ==
    IF payload = <<18, 6, 21, 44>> THEN <<72, 101, 108>> ELSE <<127>>

----------------------------------------------------------------------------
\* C1: every invocation ends with the completion signal resolved exactly
\* once: when the invocation has nothing left to run, done has been
\* invoked once and the Lambda callback has been called once.  Stated for
\* the invocations in which no exception is raised.
C1_CompletesExactlyOnce ==
    (Terminated /\ thrown = <<>>) =>
        Len(doneCalls) = 1 /\ Len(callbackCalls) = 1

\* C2: a failure while signing or sending the request reaches the caller
\* as done(err): the callback answers '400' with the error's message, and
\* no second request is made.
C2_FailureIsDelivered ==
    LET failure == IF promise.state = "rejected" THEN <<promise.reason>>
                   ELSE IF thrown = <<SigningFailed>> THEN thrown
                   ELSE <<>>
    IN  (Terminated /\ failure # <<>>) =>
            /\ doneCalls = <<[err |-> failure[1], res |-> Undefined]>>
            /\ Len(callbackCalls) = 1
            /\ callbackCalls[1].res.statusCode = "400"
            /\ callbackCalls[1].res.body = Val(failure[1].message)
            /\ Len(requests) <= 1

\* C3: for a PUT event with a decoded body exactly one branch runs, chosen
\* by the body's keys in the order notifications, registrations,
\* reg-updates, registrations-expired, unknown; the branch receives the
\* list under its own key.
C3_BranchByPriority ==
    (Started /\ IsPut /\ HasDecodedBody) =>
        LET body == event.body.value
            Only(fn, key) ==
                /\ Len(calls) = 1
                /\ calls[1].fn = fn
                /\ calls[1].arg = body[key]
                /\ Len(doneCalls) <= 1
                /\ pc \in {"sent", "threw"} => doneCalls = <<>>
        IN  IF "notifications" \in Keys
            THEN Only("sendNotifications", "notifications")
            ELSE IF "registrations" \in Keys
            THEN Only("sendRegistrations", "registrations")
            ELSE IF "reg-updates" \in Keys
            THEN Only("sendRegistrations", "reg-updates")
            ELSE IF "registrations-expired" \in Keys
            THEN Only("sendExpirations", "registrations-expired")
            ELSE /\ calls = <<>>
                 /\ doneCalls = <<Success>>

\* A body with both registrations and reg-updates, holding different
\* lists, was handled with the registrations list.
C3_Witness ==
    /\ Started /\ IsPut /\ HasDecodedBody
    /\ {"registrations", "reg-updates"} \subseteq Keys
    /\ "notifications" \notin Keys
    /\ event.body.value["registrations"] # event.body.value["reg-updates"]
    /\ event.body.value["reg-updates"] # <<>>
    /\ calls = <<[fn |-> "sendRegistrations",
                  arg |-> event.body.value["registrations"]]>>

\* C4: a PUT event whose decoded body has none of the four keys is
\* acknowledged: done(null, 'success'), statusCode '200', and no request is
\* ever issued.
C4_UnknownBodyAcknowledged ==
    (Started /\ IsPut /\ HasDecodedBody /\ Keys \cap Recognised = {}) =>
        /\ doneCalls = <<Success>>
        /\ Len(callbackCalls) = 1
        /\ callbackCalls[1].res.statusCode = "200"
        /\ callbackCalls[1].res.body = Val([json |-> "success"])
        /\ requests = <<>>
        /\ built = <<>>
        /\ pc = "completed"

C4_Witness ==
    /\ IsPut /\ HasDecodedBody /\ Keys = {"other"}
    /\ pc = "completed"
    /\ callbackCalls[1].res.statusCode = "200"

\* C5: an event whose method is not PUT fails at once: done receives an
\* error naming the method, the callback answers '400' with that message,
\* the body is not parsed, no payload is built and no request is issued.
C5_UnsupportedMethodFails ==
    (Started /\ ~IsPut) =>
        LET message == <<"Unsupported method \"", event.httpMethod, "\"">>
        IN  /\ pc = "completed"
            /\ doneCalls = <<[err |-> Error(message), res |-> Undefined]>>
            /\ Len(callbackCalls) = 1
            /\ callbackCalls[1].res.statusCode = "400"
            /\ callbackCalls[1].res.body = Val(message)
            /\ parsed = 0
            /\ calls = <<>>
            /\ built = <<>>
            /\ requests = <<>>

\* A GET whose body holds a notifications list has been refused.
C5_Witness ==
    /\ event.httpMethod = "GET" /\ HasDecodedBody
    /\ "notifications" \in Keys /\ event.body.value["notifications"] # <<>>
    /\ pc = "completed" /\ callbackCalls[1].res.statusCode = "400"

\* C6: once the response has ended, the invocation is reported as success
\* whatever the status code and the response body are.
C6_EndedResponseIsSuccess ==
    (Terminated /\ response # Undefined /\ promise.state # "rejected") =>
        /\ promise.state = "resolved"
        /\ doneCalls = <<Success>>
        /\ Len(callbackCalls) = 1
        /\ callbackCalls[1].res.statusCode = "200"

\* C7: an invocation that selects a notification, registration or
\* expiration branch issues exactly one request, a POST to /_bulk carrying
\* the whole batch; an empty list gives an empty payload.  Stated for the
\* invocations in which signing succeeds.
C7_ExactlyOneBulkRequest ==
    (Started /\ calls # <<>> /\ thrown # <<SigningFailed>>) =>
        /\ Len(requests) = 1
        /\ requests[1].method = "POST"
        /\ requests[1].path = <<"_bulk">>
        /\ built = <<requests[1].body>>
        /\ calls[1].arg = <<>> => requests[1].body = <<>>

\* C8: sendRegistrations builds, for a list of N items, 4N lines: for the
\* i-th item a devices action line, the device document, a registrations
\* action line and the document with the item's endpoint and value 1.
C8_RegistrationsPayload ==
    (Started /\ calls # <<>> /\ calls[1].fn = "sendRegistrations") =>
        LET items == calls[1].arg
            N == Len(items)
        IN  /\ Len(built) = 1
            /\ HasLines(built[1], 4 * N)
            /\ \A i \in 1..N :
                 LET item == items[i]
                     device == Line(built[1], 4 * i - 2)
                     registration == Line(built[1], 4 * i)
                 IN  /\ Line(built[1], 4 * i - 3) = IndexAction("devices")
                     /\ Field(device, "endpoint") = Get(item, "ep")
                     /\ Field(device, "original-ep") = Get(item, "original-ep")
                     /\ Field(device, "ept") = Get(item, "ept")
                     /\ Field(device, "resources") =
                          (IF "resources" \in DOMAIN item
                           THEN Val([json |-> item["resources"]])
                           ELSE Undefined)
                     /\ Field(device, "value") = Undefined
                     /\ Line(built[1], 4 * i - 1) = IndexAction("registrations")
                     /\ Field(registration, "endpoint") = Get(item, "ep")
                     /\ Field(registration, "value") = Val(1)
                     /\ Field(registration, "resources") = Undefined

\* Two different registrations were put into one payload of eight lines.
C8_Witness ==
    /\ calls # <<>> /\ calls[1].fn = "sendRegistrations"
    /\ Len(calls[1].arg) = 2 /\ calls[1].arg[1] # calls[1].arg[2]
    /\ Len(built) = 1 /\ HasLines(built[1], 8)

C10_MalformedItemKeepsBatch ==
    (Started /\ calls # <<>> /\ thrown # <<SigningFailed>>
       /\ calls[1].fn \in {"sendNotifications", "sendRegistrations"}
       /\ \E i \in 1..Len(calls[1].arg) :
            DOMAIN calls[1].arg[i] \notin
                {{"ep", "path", "payload"},
                 {"ep", "original-ep", "ept", "resources"}}) =>
        /\ Len(built) = 1
        /\ HasLines(built[1], Len(calls[1].arg) *
                       (IF calls[1].fn = "sendNotifications" THEN 2 ELSE 4))
        /\ thrown = <<>> => Len(requests) = 1

====
